---- MODULE Spec2Model ----
(***************************************************************************)
(* Batched low-order-refined (LOR) diffusion assembly, fem/lor_assembly.cpp *)
(*                                                                         *)
(* Real numbers are exact rationals with the common denominator One: the   *)
(* double 1.0 is the integer One, and every value of the metric buffer and *)
(* of the sparse matrix is an integer count of 1/One.  Gradient factors    *)
(* (btab entries, signs) are the plain integers -1, 0, 1.                  *)
(***************************************************************************)
EXTENDS Integers, Sequences, FiniteSets, TLC

\* ------------------------------------------------------------ bounds
MaxOrder == 3
MaxOrder3D == 2
MaxElems == 2
MaxEss == 2
MaxEssDof == 3
NumBuffers == 16

\* ------------------------------------------------- program constants
\* Highest order with a case label in the two switch statements.
MaxKernelOrder == 16
\* The double 1.0, in units of 1/One.
One == 48

\* ------------------------------------------------------------ helpers
RECURSIVE Pow(_, _)
Pow(b, e) == IF e <= 0 THEN 1 ELSE b * Pow(b, e - 1)

Max2(a, b) == IF a >= b THEN a ELSE b
Min2(a, b) == IF a <= b THEN a ELSE b

\* y, with x evaluated first: an accumulator handed on through a loop is
\* computed at every pass, not at the end of the loop.
Strict(x, y) == IF x = x THEN y ELSE y

RECURSIVE SumFn(_, _, _)
\* f[lo] + ... + f[hi], in loop order
SumFn(f, lo, hi) == IF lo > hi THEN 0 ELSE f[lo] + SumFn(f, lo + 1, hi)

\* ------------------------------------------------------------ inputs
\* The meshes the model feeds in: a strip of nel_ho high-order elements along
\* x, each refined into order^dim fine cells; the fine vertices sit on the
\* integer grid, moved by one of these maps.
MeshKinds == {"unit", "stretch", "shear", "zigzag"}

\* Physical coordinates of the fine-mesh vertex at grid position (gx,gy,gz).
VertexCoord(kind, gx, gy, gz) ==
    CASE kind = "unit"    -> <<gx, gy, gz>>
      [] kind = "stretch" -> <<2 * gx, gy, 3 * gz>>
      [] kind = "shear"   -> <<gx + gy, gy + gz, gz>>
      [] kind = "zigzag"  -> <<gx, 2 * gy + (gx % 2) * (gy % 2), gz>>

\* The refinement embedding of fine cell iel_lor: its parent element and its
\* sub-cell id (mesh_lor.GetRefinementTransforms().embeddings).
EmbeddingParent(iel_lor, p, d) == iel_lor \div Pow(p, d)
EmbeddingMatrix(iel_lor, p, d) == iel_lor % Pow(p, d)

\* Grid position <<cx,cy,cz>> of the lower corner of sub-cell iref of element e.
CellOrigin(e, iref, p, d) ==
    <<e * p + (iref % p),
      (iref \div p) % p,
      IF d = 3 THEN iref \div (p * p) ELSE 0>>

\* mesh_lor.GetVertex(v[n]) for the n-th vertex of a fine cell: counter-
\* clockwise on the bottom face, then the same on the top face.
CornerX(n) == IF (n % 4) \in {1, 2} THEN 1 ELSE 0
CornerY(n) == IF (n % 4) \in {2, 3} THEN 1 ELSE 0
CornerZ(n) == n \div 4
CellVertex(kind, e, iref, p, d, n) ==
    LET o == CellOrigin(e, iref, p, d)
    IN  VertexCoord(kind, o[1] + CornerX(n), o[2] + CornerY(n), o[3] + CornerZ(n))

\* The integration rule irs.Get(geometry, 1) of the Gauss-Lobatto family: two
\* points per axis (the cell's corners), x fastest, equal weights.
IrSize(d) == Pow(2, d)
IrX(iq) == iq % 2
IrY(iq) == (iq \div 2) % 2
IrZ(iq) == iq \div 4
IrWeight(d) == One \div IrSize(d)

\* Number of true dofs of the high-order space on the strip.
GetTrueVSize(d, p, nel) == (nel * p + 1) * Pow(p + 1, d - 1)

\* ------------------------------------------------- dof stencil mapper
\* Native (H1) ordering of the (p+1)^2 nodes of a quadrilateral, as the list of
\* their lexicographic indices: 4 vertices, 4 edges, interior.
NativeOrder2D(p) ==
    LET n1 == p + 1
        verts == <<0, p, p + p * n1, p * n1>>
        e0 == [i \in 1..(p - 1) |-> i]
        e1 == [i \in 1..(p - 1) |-> p + i * n1]
        e2 == [i \in 1..(p - 1) |-> (p - i) + p * n1]
        e3 == [i \in 1..(p - 1) |-> (p - i) * n1]
        int == [n \in 1..((p - 1) * (p - 1)) |->
                  (1 + ((n - 1) % (p - 1))) + (1 + ((n - 1) \div (p - 1))) * n1]
    IN  verts \o e0 \o e1 \o e2 \o e3 \o int

\* Native ordering of the (p+1)^3 nodes of a hexahedron: the 8 vertices, then
\* the remaining nodes.
NativeOrder3D(p) ==
    LET n1 == p + 1
        L(x, y, z) == x + y * n1 + z * n1 * n1
        verts == <<L(0,0,0), L(p,0,0), L(p,p,0), L(0,p,0),
                   L(0,0,p), L(p,0,p), L(p,p,p), L(0,p,p)>>
        isVert(l) == \E n \in 1..8 : verts[n] = l
        all == [l \in 1..(n1 * n1 * n1) |-> l - 1]
    IN  verts \o SelectSeq(all, LAMBDA l : ~isVert(l))

NativeOrder(d, p) == IF d = 3 THEN NativeOrder3D(p) ELSE NativeOrder2D(p)

\* GetLexicographicOrdering(): lexicographic index -> native index (0-based).
LexMap(d, p) ==
    LET nat == NativeOrder(d, p)
    IN  [l \in 0..(Len(nat) - 1) |-> (CHOOSE n \in 1..Len(nat) : nat[n] = l) - 1]

\* Global dof of the node with lexicographic index l of element e.
GlobalNode(d, p, nel, e, l) ==
    LET n1 == p + 1
        W  == nel * p + 1
        ix == l % n1
        iy == (l \div n1) % n1
        iz == l \div (n1 * n1)
    IN  (e * p + ix) + iy * W + iz * W * n1

\* fes_ho.GetElementDofs(e, dofs): the element's dofs in native order (0-based).
GetElementDofs(d, p, nel, e) ==
    LET nat == NativeOrder(d, p)
    IN  [n \in 0..(Len(nat) - 1) |-> GlobalNode(d, p, nel, e, nat[n + 1])]

\* ------------------------------------------------- geometric factors
\* Division of doubles; the inputs keep it exact (b divides a, b > 0).
RealDiv(a, b) == a \div b

\* d/dx, d/dy, d/dz of the bi/trilinear map of the cell's vertices v (0-based
\* vertex n at v[n + 1]), coordinate c, at reference point (x, y, z).
MapDx(v, c, y, z) ==
    - (1 - y) * (1 - z) * v[1][c] + (1 - y) * (1 - z) * v[2][c]
    + y * (1 - z) * v[3][c] - y * (1 - z) * v[4][c]
    - (1 - y) * z * v[5][c] + (1 - y) * z * v[6][c]
    + y * z * v[7][c] - y * z * v[8][c]
MapDy(v, c, x, z) ==
    - (1 - x) * (1 - z) * v[1][c] - x * (1 - z) * v[2][c]
    + x * (1 - z) * v[3][c] + (1 - x) * (1 - z) * v[4][c]
    - (1 - x) * z * v[5][c] - x * z * v[6][c]
    + x * z * v[7][c] + (1 - x) * z * v[8][c]
MapDz(v, c, x, y) ==
    - (1 - x) * (1 - y) * v[1][c] - x * (1 - y) * v[2][c]
    - x * y * v[3][c] - (1 - x) * y * v[4][c]
    + (1 - x) * (1 - y) * v[5][c] + x * (1 - y) * v[6][c]
    + x * y * v[7][c] + (1 - x) * y * v[8][c]

CellVertices(kind, e, iref, p, d) ==
    [n \in 1..8 |-> CellVertex(kind, e, iref, p, d, n - 1)]

\* geom->J(iq, :, :, iel_lor) of a bilinear cell: <<J11, J21, J12, J22>>.
GeomJ2D(kind, e, iref, p, iq) ==
    LET v == CellVertices(kind, e, iref, p, 2)
        x == IrX(iq)
        y == IrY(iq)
    IN  <<MapDx(v, 1, y, 0), MapDx(v, 2, y, 0), MapDy(v, 1, x, 0), MapDy(v, 2, x, 0)>>

\* The three values written for one quadrature point of one fine cell (2D).
Metric2DUnweighted(Jq, wq) ==
    LET J11 == Jq[1]
        J21 == Jq[2]
        J12 == Jq[3]
        J22 == Jq[4]
        w_detJ == RealDiv(One, (J11 * J22) - (J21 * J12))
    IN  << w_detJ * (J12 * J12 + J22 * J22),
          -w_detJ * (J12 * J11 + J22 * J21),
           w_detJ * (J11 * J11 + J21 * J21)>>
Metric2D(Jq, wq) ==
    LET J11 == Jq[1]
        J21 == Jq[2]
        J12 == Jq[3]
        J22 == Jq[4]
        w_detJ == RealDiv(wq, (J11 * J22) - (J21 * J12))
    IN  << w_detJ * (J12 * J12 + J22 * J22),
          -w_detJ * (J12 * J11 + J22 * J21),
           w_detJ * (J11 * J11 + J21 * J21)>>

\* The Jacobian the 3D kernel forms from the cell's vertices:
\* <<J11, J12, J13, J21, J22, J23, J31, J32, J33>>.
Jac3D(kind, e, iref, p, iq) ==
    LET v == CellVertices(kind, e, iref, p, 3)
        x == IrX(iq)
        y == IrY(iq)
        z == IrZ(iq)
    IN  <<MapDx(v, 1, y, z), MapDy(v, 1, x, z), MapDz(v, 1, x, y),
          MapDx(v, 2, y, z), MapDy(v, 2, x, z), MapDz(v, 2, x, y),
          MapDx(v, 3, y, z), MapDy(v, 3, x, z), MapDz(v, 3, x, y)>>

Det3D(Jq) ==
    LET J11 == Jq[1]
        J12 == Jq[2]
        J13 == Jq[3]
        J21 == Jq[4]
        J22 == Jq[5]
        J23 == Jq[6]
        J31 == Jq[7]
        J32 == Jq[8]
        J33 == Jq[9]
    IN  J11 * (J22 * J33 - J32 * J23) -
        J21 * (J12 * J33 - J32 * J13) +
        J31 * (J12 * J23 - J22 * J13)

\* <<A11, A12, A13, A21, A22, A23, A31, A32, A33>>
Adj3DNotTransposed(Jq) ==
    LET J11 == Jq[1]
        J12 == Jq[2]
        J13 == Jq[3]
        J21 == Jq[4]
        J22 == Jq[5]
        J23 == Jq[6]
        J31 == Jq[7]
        J32 == Jq[8]
        J33 == Jq[9]
    IN  <<(J22 * J33) - (J23 * J32), (J31 * J23) - (J21 * J33), (J21 * J32) - (J31 * J22),
          (J32 * J13) - (J12 * J33), (J11 * J33) - (J13 * J31), (J31 * J12) - (J11 * J32),
          (J12 * J23) - (J22 * J13), (J21 * J13) - (J11 * J23), (J11 * J22) - (J12 * J21)>>
Adj3D(Jq) ==
    LET J11 == Jq[1]
        J12 == Jq[2]
        J13 == Jq[3]
        J21 == Jq[4]
        J22 == Jq[5]
        J23 == Jq[6]
        J31 == Jq[7]
        J32 == Jq[8]
        J33 == Jq[9]
    IN  <<(J22 * J33) - (J23 * J32), (J32 * J13) - (J12 * J33), (J12 * J23) - (J22 * J13),
          (J31 * J23) - (J21 * J33), (J11 * J33) - (J13 * J31), (J21 * J13) - (J11 * J23),
          (J21 * J32) - (J31 * J22), (J31 * J12) - (J11 * J32), (J11 * J22) - (J12 * J21)>>

\* The six values written for one quadrature point of one fine cell (3D).
Metric3D(Jq, wq) ==
    LET w_detJ == RealDiv(wq, Det3D(Jq))
        Aq  == Adj3D(Jq)
        A11 == Aq[1]
        A12 == Aq[2]
        A13 == Aq[3]
        A21 == Aq[4]
        A22 == Aq[5]
        A23 == Aq[6]
        A31 == Aq[7]
        A32 == Aq[8]
        A33 == Aq[9]
    IN  <<w_detJ * (A11 * A11 + A12 * A12 + A13 * A13),
          w_detJ * (A11 * A21 + A12 * A22 + A13 * A23),
          w_detJ * (A11 * A31 + A12 * A32 + A13 * A33),
          w_detJ * (A21 * A21 + A22 * A22 + A23 * A23),
          w_detJ * (A21 * A31 + A22 * A32 + A23 * A33),
          w_detJ * (A31 * A31 + A32 * A32 + A33 * A33)>>

\* One pass of the loop over fine cells: the slots <<component, iq, iref,
\* iel_ho>> of the metric buffer written for fine cell iel_lor.
GeomCellWritesByFineCell(kind, d, p, cell) ==
    LET e    == EmbeddingParent(cell, p, d)
        iref == EmbeddingMatrix(cell, p, d)
        nc   == (d * (d + 1)) \div 2
        m(iq) == IF d = 2 THEN Metric2D(GeomJ2D(kind, e, iref, p, iq), IrWeight(2))
                          ELSE Metric3D(Jac3D(kind, e, iref, p, iq), IrWeight(3))
        mq   == [iq \in 0..(IrSize(d) - 1) |-> m(iq)]
    IN  [s \in {<<c, iq, cell, e>> : c \in 0..(nc - 1), iq \in 0..(IrSize(d) - 1)}
           |-> mq[s[2]][s[1] + 1]]
GeomCellWrites(kind, d, p, cell) ==
    LET e    == EmbeddingParent(cell, p, d)
        iref == EmbeddingMatrix(cell, p, d)
        nc   == (d * (d + 1)) \div 2
        m(iq) == IF d = 2 THEN Metric2D(GeomJ2D(kind, e, iref, p, iq), IrWeight(2))
                          ELSE Metric3D(Jac3D(kind, e, iref, p, iq), IrWeight(3))
        mq   == [iq \in 0..(IrSize(d) - 1) |-> m(iq)]
    IN  [s \in {<<c, iq, iref, e>> : c \in 0..(nc - 1), iq \in 0..(IrSize(d) - 1)}
           |-> mq[s[2]][s[1] + 1]]

\* ------------------------------------------------------ sparse matrix
EmptyEntries == [x \in {} |-> 0]

\* new SparseMatrix(h, w): no entries, not finalized.
NewSparseMatrix(h, w) ==
    [height |-> h, width |-> w, entries |-> EmptyEntries, finalized |-> FALSE]

\* The value of entry (i, j); an entry not stored is zero.
Elem(M, i, j) == IF <<i, j>> \in DOMAIN M.entries THEN M.entries[<<i, j>>] ELSE 0

\* SparseMatrix::Add(i, j, v): creates the entry if needed, then adds to it.
Add(M, i, j, v) ==
    [M EXCEPT !.entries =
        IF <<i, j>> \in DOMAIN @ THEN [@ EXCEPT ![<<i, j>>] = @ + v]
                                 ELSE @ @@ (<<i, j>> :> v)]

\* SparseMatrix::Set(i, j, v), used only to state what Add is not.
Set(M, i, j, v) ==
    [M EXCEPT !.entries =
        IF <<i, j>> \in DOMAIN @ THEN [@ EXCEPT ![<<i, j>>] = v]
                                 ELSE @ @@ (<<i, j>> :> v)]

\* SparseMatrix::EliminateRowCol(rc, policy): every stored off-diagonal entry
\* of row rc and of column rc becomes zero; the diagonal follows the policy.
EliminateRowCol(M, rc, policy) ==
    [M EXCEPT !.entries =
        [x \in DOMAIN @ |->
            IF x[1] = rc /\ x[2] = rc
            THEN (CASE policy = "DIAG_KEEP" -> @[x]
                    [] policy = "DIAG_ONE"  -> One
                    [] policy = "DIAG_ZERO" -> 0)
            ELSE IF x[1] = rc \/ x[2] = rc THEN 0 ELSE @[x]]]

\* SparseMatrix::Finalize(): compresses the rows, dropping stored zeros.
Finalize(M) ==
    [M EXCEPT !.entries = [x \in {y \in DOMAIN @ : @[y] # 0} |-> @[x]],
              !.finalized = TRUE]

\* ------------------------------------------------ local assembler, 2D
\* constexpr double btab[4] = {0.0, 1.0, 1.0, 0.0}, 0-based offset o.
btab(o) == <<0, 1, 1, 0>>[o + 1]

\* (offset < 2 ? 1.0 : -1.0)
GradSignOffByOne(o) == IF o <= 2 THEN 1 ELSE -1
GradSign(o) == IF o < 2 THEN 1 ELSE -1

\* First and one-past-last sub-cell index, along one axis, of the sub-cells
\* visited for the node pair with coordinates i and j on that axis.
OverlapBeginOffByOne(i, j) == Max2(Max2(i, 0), j - 1)
OverlapBegin(i, j) == Max2(Max2(i - 1, 0), j - 1)
OverlapEndFirstOnly(i, j, p) == OverlapBegin(i, j) + 1
OverlapEnd(i, j, p) == Min2(Min2(i, p - 1), j) + 1

\* k = kx + ky*order: the sub-cell's index into the metric buffer.
SubCellIndex(kx, ky, p) == kx + ky * p

\* (k - i + 1)*2 + iq: the gradient-table offset of node coordinate i seen from
\* quadrature point iq of sub-cell coordinate k, along one axis.
Offset(k, i, iq) == (k - i + 1) * 2 + iq

\* The factor of the off-diagonal metric entry: (b*c + a*d).
CrossTermOneSided(a, b, c, d) == 2 * b * c
CrossTerm(a, b, c, d) == b * c + a * d

\* What one quadrature point of one sub-cell adds to val.
QuadTerm2D(buf, p, e, ix, iy, jx, jy, kx, ky, iqx, iqy) ==
    LET k == SubCellIndex(kx, ky, p)
        offset_x_i == Offset(kx, ix, iqx)
        offset_y_i == Offset(ky, iy, iqy)
        offset_x_j == Offset(kx, jx, iqx)
        offset_y_j == Offset(ky, jy, iqy)
        iq == iqx + iqy * 2
        a == btab(offset_y_i) * GradSign(offset_x_i)
        b == btab(offset_x_i) * GradSign(offset_y_i)
        c == btab(offset_y_j) * GradSign(offset_x_j)
        d == btab(offset_x_j) * GradSign(offset_y_j)
    IN  a * c * buf[<<0, iq, k, e>>]
        + CrossTerm(a, b, c, d) * buf[<<1, iq, k, e>>]
        + b * d * buf[<<2, iq, k, e>>]

\* val for the node pair (ix,iy), (jx,jy) of element e: the sum over the
\* overlap range of sub-cells and their four quadrature points.
Val2D(buf, p, e, ix, iy, jx, jy) ==
    LET kx_begin == OverlapBegin(ix, jx)
        kx_end   == OverlapEnd(ix, jx, p)
        ky_begin == OverlapBegin(iy, jy)
        ky_end   == OverlapEnd(iy, jy, p)
    IN  SumFn([ky \in ky_begin..(ky_end - 1) |->
          SumFn([kx \in kx_begin..(kx_end - 1) |->
            SumFn([q \in 0..3 |->
              QuadTerm2D(buf, p, e, ix, iy, jx, jy, kx, ky, q % 2, q \div 2)],
              0, 3)],
            kx_begin, kx_end - 1)],
          ky_begin, ky_end - 1)

\* A_mat.Add(ii, jj, val) at the end of the pair loop.
Scatter2DSet(M, ii, jj, val) == Set(M, ii, jj, val)
Scatter2D(M, ii, jj, val) == Add(M, ii, jj, val)

\* The loops over (xshift, yshift) for the node with lexicographic index l of
\* element e, from iteration s = (xshift+1) * 3 + (yshift+1) on.  acc carries
\* the matrix and the record of the values handed to Add.
RECURSIVE Assemble2DNode(_, _, _, _, _, _, _)
Assemble2DNode(acc, buf, p, e, dofOf, l, s) ==
    LET n1 == p + 1
        ix == l % n1
        iy == l \div n1
        jx == ix + (s \div 3) - 1
        jy == iy + (s % 3) - 1
        lj == jx + jy * n1
        val == Val2D(buf, p, e, ix, iy, jx, jy)
    IN  Strict(acc,
        IF s >= 9 THEN acc
        ELSE IF jx < 0 \/ jx >= n1 \/ jy < 0 \/ jy >= n1
             THEN Assemble2DNode(acc, buf, p, e, dofOf, l, s + 1)
             ELSE Assemble2DNode(
                     [mat |-> Scatter2D(acc.mat, dofOf[l], dofOf[lj], val),
                      log |-> acc.log @@ (<<e, l, lj>> :> val)],
                     buf, p, e, dofOf, l, s + 1))

\* The loops over (iy, ix) of one element, from node l = ix + iy*(p+1) on.
RECURSIVE Assemble2DLoop(_, _, _, _, _, _)
Assemble2DLoop(acc, buf, p, e, dofOf, l) ==
    Strict(acc,
    IF l >= (p + 1) * (p + 1) THEN acc
    ELSE Assemble2DLoop(Assemble2DNode(acc, buf, p, e, dofOf, l, 0), buf, p, e, dofOf, l + 1))

\* dofs[lex_map[l]] for every lexicographic index l of element e.
DofOfLex(d, p, nel, e) ==
    LET dofs == GetElementDofs(d, p, nel, e)
        lex_map == LexMap(d, p)
    IN  [l \in 0..(Pow(p + 1, d) - 1) |-> dofs[lex_map[l]]]

\* ------------------------------------------------ local assembler, 3D
\* Value and derivative of the trilinear corner function along one axis:
\* corner index j (0 or 1), quadrature index iq (0 or 1).
CornerG(j) == IF j = 0 THEN -1 ELSE 1
CornerB(j, iq) == IF j = iq THEN 1 ELSE 0

\* val for local corners ii_loc, jj_loc at quadrature point iq of sub-cell k.
QuadTerm3D(buf, e, k, iq, ii_loc, jj_loc) ==
    LET iqx == iq % 2
        iqy == (iq \div 2) % 2
        iqz == iq \div 4
        ix == ii_loc % 2
        iy == (ii_loc \div 2) % 2
        iz == ii_loc \div 4
        jx == jj_loc % 2
        jy == (jj_loc \div 2) % 2
        jz == jj_loc \div 4
        gj_x == CornerG(jx) * CornerB(jy, iqy) * CornerB(jz, iqz)
        gj_y == CornerB(jx, iqx) * CornerG(jy) * CornerB(jz, iqz)
        gj_z == CornerB(jx, iqx) * CornerB(jy, iqy) * CornerG(jz)
        gi_x == CornerG(ix) * CornerB(iy, iqy) * CornerB(iz, iqz)
        gi_y == CornerB(ix, iqx) * CornerG(iy) * CornerB(iz, iqz)
        gi_z == CornerB(ix, iqx) * CornerB(iy, iqy) * CornerG(iz)
    IN  (gi_x * gj_x) * buf[<<0, iq, k, e>>]
        + (gi_y * gj_x + gi_x * gj_y) * buf[<<1, iq, k, e>>]
        + (gi_z * gj_x + gi_x * gj_z) * buf[<<2, iq, k, e>>]
        + (gi_y * gj_y) * buf[<<3, iq, k, e>>]
        + (gi_z * gj_y + gi_y * gj_z) * buf[<<4, iq, k, e>>]
        + (gi_z * gj_z) * buf[<<5, iq, k, e>>]

\* local_mat[ii_loc + 8*jj_loc], m = ii_loc + 8*jj_loc, after the quadrature
\* loops of sub-cell k.
QuadSum3D(buf, e, k, m) ==
    SumFn([iq \in 0..7 |-> QuadTerm3D(buf, e, k, iq, m % 8, m \div 8)], 0, 7)

\* local_mat after the quadrature loops of sub-cell k.
LocalMat3D(buf, e, k) == [m \in 0..63 |-> QuadSum3D(buf, e, k, m)]

\* ------------------------------------------------------------- state
VARIABLES
    usesTensor,   \* UsesTensorBasis(fes_ho)
    dim,          \* mesh_ho.Dimension()
    order,        \* fes_ho.GetMaxElementOrder()
    nel_ho,       \* mesh_ho.GetNE()
    mesh,         \* which vertex map the fine mesh has
    ess_dofs,     \* the array of essential dofs, as given to the elimination
                  \* loop; empty until the loop is entered
    pc,           \* where AssembleBatchedLOR is
    iel_lor,      \* loop counter of the geometric-factor loop
    iel_ho,       \* loop counter of the element loop
    ksub,         \* 3D: sub-cell counter kx + ky*order + kz*order*order
    ess_pos,      \* position of the elimination loop in ess_dofs (1-based)
    invJ,         \* metric buffer: written slots <<c, iq, k, e>> -> value
    local_mat,    \* 3D: the 8x8 local matrix, entry ii_loc + 8*jj_loc
    A_mat,        \* <<>> before allocation, else <<the sparse matrix>>
    A,            \* the output handle: <<>> or <<the matrix it owns>>
    added,        \* history: <<e, l_i, l_j>> -> value handed to A_mat.Add
    calls,        \* history: how many times each matrix operation ran
    A_assembled   \* history: <<A_mat[1]>> as it was when the elimination loop
                  \* was entered, <<>> before

inputs == <<usesTensor, dim, order, nel_ho, mesh>>
vars == <<usesTensor, dim, order, nel_ho, mesh, ess_dofs, pc, iel_lor, iel_ho,
          ksub, ess_pos, invJ, local_mat, A_mat, A, added, calls, A_assembled>>

ndofs == GetTrueVSize(dim, order, nel_ho)
nel_lor == nel_ho * Pow(order, dim)

\* A case label exists for this order in the switch of this dimension.
HasKernelAnyDim(d, p) == d \in {1, 2, 3} /\ p \in 1..MaxKernelOrder
HasKernel(d, p) == d \in {2, 3} /\ p \in 1..MaxKernelOrder

NoCalls == [kernel |-> 0, add |-> 0, elim |-> 0, finalize |-> 0, reset |-> 0]

\* Arrays of distinct dofs, at most MaxEss long, among the first dofs.
EssChoices(n) ==
    LET D == 0..Min2(MaxEssDof, n - 1)
    IN  {s \in UNION {[1..m -> D] : m \in 0..MaxEss} :
            \A i, j \in DOMAIN s : i # j => s[i] # s[j]}

OrderChoices(d) ==
    (0..(IF d = 3 THEN MaxOrder3D ELSE MaxOrder)) \cup {MaxKernelOrder + 1}

Init ==
    /\ usesTensor \in BOOLEAN
    /\ dim \in 1..3
    /\ order \in OrderChoices(dim)
    /\ nel_ho \in 1..MaxElems
    /\ mesh \in (IF HasKernel(dim, order) THEN MeshKinds ELSE {"unit"})
    /\ ess_dofs = <<>>
    /\ pc = "verify"
    /\ iel_lor = 0
    /\ iel_ho = 0
    /\ ksub = 0
    /\ ess_pos = 1
    /\ invJ = EmptyEntries
    /\ local_mat = [m \in 0..63 |-> 0]
    /\ A_mat = <<>>
    /\ A = <<>>
    /\ added = EmptyEntries
    /\ calls = NoCalls
    /\ A_assembled = <<>>

\* ----------------------------------------------------------- the driver
\* MFEM_VERIFY(UsesTensorBasis(fes_ho), ...), which aborts the call.
VerifyNever ==
    /\ pc = "verify"
    /\ pc' = "alloc"
    /\ UNCHANGED <<inputs, ess_dofs, iel_lor, iel_ho, ksub, ess_pos, invJ, local_mat,
                   A_mat, A, added, calls, A_assembled>>
Verify ==
    /\ pc = "verify"
    /\ pc' = IF usesTensor THEN "alloc" ELSE "aborted"
    /\ UNCHANGED <<inputs, ess_dofs, iel_lor, iel_ho, ksub, ess_pos, invJ, local_mat,
                   A_mat, A, added, calls, A_assembled>>

\* SparseMatrix *A_mat = new SparseMatrix(ndofs, ndofs);
Allocate ==
    /\ pc = "alloc"
    /\ A_mat' = <<NewSparseMatrix(ndofs, ndofs)>>
    /\ pc' = "dispatch"
    /\ UNCHANGED <<inputs, ess_dofs, iel_lor, iel_ho, ksub, ess_pos, invJ, local_mat,
                   A, added, calls, A_assembled>>

\* if (dim == 2) switch (order) ... else if (dim == 3) switch (order) ...
Dispatch ==
    /\ pc = "dispatch"
    /\ IF HasKernel(dim, order)
       THEN /\ pc' = (IF dim = 2 THEN "geom2d" ELSE "geom3d")
            /\ calls' = [calls EXCEPT !.kernel = @ + 1]
       ELSE /\ pc' = "returned"
            /\ UNCHANGED calls
    /\ UNCHANGED <<inputs, ess_dofs, iel_lor, iel_ho, ksub, ess_pos, invJ, local_mat,
                   A_mat, A, added, A_assembled>>

\* One pass of the 2D loop over fine cells.
Geom2DStep ==
    /\ pc = "geom2d"
    /\ iel_lor < nel_lor
    /\ invJ' = GeomCellWrites(mesh, 2, order, iel_lor) @@ invJ
    /\ iel_lor' = iel_lor + 1
    /\ pc' = IF iel_lor + 1 = nel_lor THEN "assemble2d" ELSE "geom2d"
    /\ UNCHANGED <<inputs, ess_dofs, iel_ho, ksub, ess_pos, local_mat, A_mat, A, added,
                   calls, A_assembled>>

\* One pass of the 2D loop over high-order elements: every A_mat.Add of
\* element iel_ho.
Assemble2DStep ==
    /\ pc = "assemble2d"
    /\ iel_ho < nel_ho
    /\ LET r == Assemble2DLoop([mat |-> A_mat[1], log |-> added], invJ, order,
                               iel_ho, DofOfLex(2, order, nel_ho, iel_ho), 0)
       IN  /\ A_mat' = <<r.mat>>
           /\ added' = r.log
           /\ calls' = [calls EXCEPT !.add =
                           @ + Cardinality(DOMAIN r.log) - Cardinality(DOMAIN added)]
    /\ iel_ho' = iel_ho + 1
    /\ pc' = IF iel_ho + 1 = nel_ho THEN "returned" ELSE "assemble2d"
    /\ UNCHANGED <<inputs, ess_dofs, iel_lor, ksub, ess_pos, invJ, local_mat, A,
                   A_assembled>>

\* One pass of the 3D loop over fine cells.
Geom3DStep ==
    /\ pc = "geom3d"
    /\ iel_lor < nel_lor
    /\ invJ' = GeomCellWrites(mesh, 3, order, iel_lor) @@ invJ
    /\ iel_lor' = iel_lor + 1
    /\ pc' = IF iel_lor + 1 = nel_lor THEN "assemble3d" ELSE "geom3d"
    /\ UNCHANGED <<inputs, ess_dofs, iel_ho, ksub, ess_pos, local_mat, A_mat, A, added,
                   calls, A_assembled>>

\* One pass of the 3D loops over sub-cells (kz, ky, kx) of element iel_ho:
\* local_mat is zeroed and filled; nothing is added to A_mat.
Assemble3DStep ==
    /\ pc = "assemble3d"
    /\ iel_ho < nel_ho
    /\ local_mat' = LocalMat3D(invJ, iel_ho, ksub)
    /\ LET lastSub == (ksub + 1 = Pow(order, 3))
           last == lastSub /\ (iel_ho + 1 = nel_ho)
       IN  /\ ksub' = IF lastSub THEN 0 ELSE ksub + 1
           /\ iel_ho' = IF lastSub THEN iel_ho + 1 ELSE iel_ho
           /\ pc' = IF last THEN "returned" ELSE "assemble3d"
    /\ UNCHANGED <<inputs, ess_dofs, iel_lor, ess_pos, invJ, A_mat, A, added, calls,
                   A_assembled>>

\* Which pass of the elimination loop comes first: 1, the first element of the
\* array.
FirstPassSkipsOne == 1 + 1
FirstPass == 1

\* for (int i : ess_dofs): the kernel, if any, has returned and the loop over
\* the caller's array begins.
BeginElimination ==
    /\ pc = "returned"
    /\ \E ess \in EssChoices(ndofs) :
          /\ ess_dofs' = ess
          /\ ess_pos' = FirstPass
          /\ pc' = IF FirstPass > Len(ess) THEN "finalize" ELSE "eliminate"
    /\ A_assembled' = A_mat
    /\ UNCHANGED <<inputs, iel_lor, iel_ho, ksub, invJ, local_mat, A_mat, A, added,
                   calls>>

\* The policy handed to EliminateRowCol.
DiagPolicyOne == "DIAG_ONE"
DiagPolicy == "DIAG_KEEP"

\* for (int i : ess_dofs) { A_mat->EliminateRowCol(i, Operator::DIAG_KEEP); }
EliminateStep ==
    /\ pc = "eliminate"
    /\ ess_pos <= Len(ess_dofs)
    /\ A_mat' = <<EliminateRowCol(A_mat[1], ess_dofs[ess_pos], DiagPolicy)>>
    /\ calls' = [calls EXCEPT !.elim = @ + 1]
    /\ ess_pos' = ess_pos + 1
    /\ pc' = IF ess_pos = Len(ess_dofs) THEN "finalize" ELSE "eliminate"
    /\ UNCHANGED <<inputs, ess_dofs, iel_lor, iel_ho, ksub, invJ, local_mat, A, added,
                   A_assembled>>

\* A_mat->Finalize();
FinalizeStep ==
    /\ pc = "finalize"
    /\ A_mat' = <<Finalize(A_mat[1])>>
    /\ calls' = [calls EXCEPT !.finalize = @ + 1]
    /\ pc' = "reset"
    /\ UNCHANGED <<inputs, ess_dofs, iel_lor, iel_ho, ksub, ess_pos, invJ, local_mat, A,
                   added, A_assembled>>

\* A.Reset(A_mat); the handle now owns the matrix.
ResetStep ==
    /\ pc = "reset"
    /\ A' = A_mat
    /\ calls' = [calls EXCEPT !.reset = @ + 1]
    /\ pc' = "done"
    /\ UNCHANGED <<inputs, ess_dofs, iel_lor, iel_ho, ksub, ess_pos, invJ, local_mat,
                   A_mat, added, A_assembled>>

Next ==
    \/ Verify
    \/ Allocate
    \/ Dispatch
    \/ Geom2DStep
    \/ Assemble2DStep
    \/ Geom3DStep
    \/ Assemble3DStep
    \/ BeginElimination
    \/ EliminateStep
    \/ FinalizeStep
    \/ ResetStep

Spec == Init /\ [][Next]_vars

\* ------------------------------------------- the 2D local assembler alone
\* The 2D element loop on metric buffers that need not come from a mesh: the
\* values of buffer number b run through -8..8 as the slot varies.
KernelBuffer(b, p, nel) ==
    [s \in {<<c, iq, k, e>> : c \in 0..2, iq \in 0..3, k \in 0..(p * p - 1), e \in 0..(nel - 1)}
        |-> (((b + 1) * (3 * s[1] + 5 * s[2] + 7 * s[3] + 11 * s[4] + 1)) % 17) - 8]

InitKernel ==
    /\ usesTensor = TRUE
    /\ dim = 2
    /\ order \in 1..MaxOrder
    /\ nel_ho \in 1..MaxElems
    /\ mesh = "unit"
    /\ ess_dofs = <<>>
    /\ pc = "assemble2d"
    /\ iel_lor = nel_lor
    /\ iel_ho = 0
    /\ ksub = 0
    /\ ess_pos = 1
    /\ invJ \in {KernelBuffer(b, order, nel_ho) : b \in 0..(NumBuffers - 1)}
    /\ local_mat = [m \in 0..63 |-> 0]
    /\ A_mat = <<NewSparseMatrix(ndofs, ndofs)>>
    /\ A = <<>>
    /\ added = EmptyEntries
    /\ calls = [NoCalls EXCEPT !.kernel = 1]
    /\ A_assembled = <<>>

NextKernel == Assemble2DStep

SpecKernel == InitKernel /\ [][NextKernel]_vars

\* The input meshes keep the arithmetic exact: on every fine cell and at every
\* quadrature point the determinant is positive and divides the weight.
InputsExact ==
    (pc = "verify" /\ HasKernel(dim, order)) =>
        \A cell \in 0..(nel_lor - 1), iq \in 0..(IrSize(dim) - 1) :
            LET e    == EmbeddingParent(cell, order, dim)
                iref == EmbeddingMatrix(cell, order, dim)
                det  == IF dim = 2
                        THEN LET Jq == GeomJ2D(mesh, e, iref, order, iq)
                             IN  Jq[1] * Jq[4] - Jq[2] * Jq[3]
                        ELSE Det3D(Jac3D(mesh, e, iref, order, iq))
            IN  det > 0 /\ IrWeight(dim) % det = 0

\* ------------------------------------------------------------- claims
\* The elimination loop has run for the first ess_pos - 1 essential dofs.
Eliminated == {ess_dofs[n] : n \in 1..(ess_pos - 1)}

\* C1: once elimination has been applied to an essential dof i, every stored
\* off-diagonal entry of row i and of column i of the matrix is zero and the
\* diagonal entry (i,i) still has the value it had after assembly; this stays
\* so through the remaining eliminations, Finalize and the hand-over.
C1_EliminationContract ==
    (A_mat # <<>> /\ A_assembled # <<>>) =>
        \A i \in Eliminated :
            /\ \A x \in DOMAIN A_mat[1].entries :
                  (x[1] = i \/ x[2] = i) /\ x[1] # x[2] => A_mat[1].entries[x] = 0
            /\ Elem(A_mat[1], i, i) = Elem(A_assembled[1], i, i)
            /\ (pc = "done" =>
                  /\ \A x \in DOMAIN A_assembled[1].entries :
                        (x[1] = i \/ x[2] = i) /\ x[1] # x[2] => Elem(A[1], x[1], x[2]) = 0
                  /\ Elem(A[1], i, i) = Elem(A_assembled[1], i, i))

\* C1 witness: a finished 2D run with two essential dofs that were coupled
\* to each other, whose kept diagonal is neither 0 nor 1.
C1_Witness ==
    /\ pc = "done"
    /\ dim = 2
    /\ Len(ess_dofs) = 2
    /\ Elem(A_assembled[1], ess_dofs[1], ess_dofs[2]) # 0
    /\ Elem(A[1], ess_dofs[1], ess_dofs[2]) = 0
    /\ Elem(A[1], ess_dofs[2], ess_dofs[1]) = 0
    /\ Elem(A[1], ess_dofs[1], ess_dofs[1]) \notin {0, One}
    /\ Elem(A[1], ess_dofs[1], ess_dofs[1]) = Elem(A_assembled[1], ess_dofs[1], ess_dofs[1])

\* The reference case: one order-1 element on the unit square, no essential
\* dofs, after the 2D kernel has returned.
RefCase ==
    /\ dim = 2
    /\ order = 1
    /\ nel_ho = 1
    /\ mesh = "unit"
    /\ pc = "returned"

\* Nodes l and m of the order-1 element (lexicographic, 0..3) share an edge.
EdgeAdjacent(l, m) == (l % 2 = m % 2) # (l \div 2 = m \div 2)

\* The 4x4 matrix of the reference case has value dg on the diagonal, ed between
\* edge-adjacent nodes and op between diagonally opposite nodes.
RefMatrixIs(dg, ed, op) ==
    LET dofOf == DofOfLex(2, 1, 1, 0)
    IN  \A l, m \in 0..3 :
            Elem(A_mat[1], dofOf[l], dofOf[m]) =
                IF l = m THEN dg ELSE IF EdgeAdjacent(l, m) THEN ed ELSE op

\* C2 as stated: the reference case assembles to diagonal 2/3, edge-adjacent
\* -1/6, diagonally opposite -1/3.
C2_Original == RefCase => RefMatrixIs((2 * One) \div 3, -(One \div 6), -(One \div 3))

\* C2 amended: with the two-point corner rule the reference case assembles to
\* diagonal 1, edge-adjacent -1/2, diagonally opposite 0.
C2_ReferenceCase == RefCase => RefMatrixIs(One, -(One \div 2), 0)

\* C2 witness: the reference case after the kernel, 16 values added.
C2_Witness == RefCase /\ calls.add = 16 /\ A_mat[1].height = 4

\* C8: with an order outside 1..16 or a dimension other than 2 or 3 (and a
\* tensor basis) no kernel runs and nothing is added; the call does not abort,
\* still eliminates every essential dof and finalizes once, and hands over an
\* ndofs x ndofs matrix with no entries.
C8_UnsupportedIsSilent ==
    (usesTensor /\ ~(dim \in {2, 3} /\ order \in 1..MaxKernelOrder)) =>
        /\ calls.kernel = 0
        /\ calls.add = 0
        /\ invJ = EmptyEntries
        /\ pc # "aborted"
        /\ (pc = "done" =>
              /\ calls.elim = Len(ess_dofs)
              /\ calls.finalize = 1
              /\ A # <<>>
              /\ A[1].height = ndofs
              /\ A[1].width = ndofs
              /\ A[1].entries = EmptyEntries
              /\ A[1].finalized)

\* C8 witness: a finished 2D run of order 17 with two essential dofs.
C8_Witness ==
    /\ pc = "done"
    /\ dim = 2
    /\ order = MaxKernelOrder + 1
    /\ Len(ess_dofs) = 2
    /\ calls.elim = 2
    /\ A[1].entries = EmptyEntries

\* C9: without a tensor basis the call stops at the check: no matrix is
\* allocated, no kernel runs, and the output handle keeps its content.
C9_NonTensorFailsFast ==
    ~usesTensor =>
        /\ pc \in {"verify", "aborted"}
        /\ A_mat = <<>>
        /\ A = <<>>
        /\ invJ = EmptyEntries
        /\ calls = NoCalls

\* C9 witness: the call has aborted.
C9_Witness == pc = "aborted" /\ ~usesTensor /\ A_mat = <<>>

\* C10: the matrix is created empty; it changes only by an addition, an
\* elimination or Finalize; no addition follows an elimination, Finalize or the
\* hand-over; eliminations start after the kernel has returned and none
\* follows Finalize; Finalize runs once, after every essential dof was
\* eliminated; the hand-over runs once, after Finalize; a finished call has
\* done all of them.
C10_PhaseOrder ==
    [][ /\ (A_mat = <<>> /\ A_mat' # <<>>) =>
              A_mat'[1].entries = EmptyEntries /\ calls = NoCalls /\ calls' = calls
        /\ (A_mat # <<>> /\ A_mat' # A_mat) =>
              \/ calls'.add > calls.add
              \/ calls'.elim = calls.elim + 1
              \/ calls'.finalize = calls.finalize + 1
        /\ calls'.add > calls.add =>
              A_mat # <<>> /\ calls.elim = 0 /\ calls.finalize = 0 /\ calls.reset = 0
        /\ calls'.elim > calls.elim =>
              A_assembled # <<>> /\ calls'.add = calls.add
              /\ calls.finalize = 0 /\ calls.reset = 0
        /\ calls'.finalize > calls.finalize =>
              A_assembled # <<>> /\ calls.elim = Len(ess_dofs)
              /\ calls.finalize = 0 /\ calls.reset = 0
        /\ calls'.reset > calls.reset =>
              calls.finalize = 1 /\ calls.reset = 0 /\ A' = A_mat
        /\ pc' = "done" =>
              calls'.finalize = 1 /\ calls'.reset = 1 /\ calls'.elim = Len(ess_dofs)
      ]_vars

\* C10 witness: a finished run that added, eliminated twice, finalized and
\* handed over.
C10_Witness ==
    /\ pc = "done"
    /\ calls.add > 0
    /\ calls.elim = 2
    /\ calls.finalize = 1
    /\ calls.reset = 1
    /\ A = A_mat

\* ---------------------------------------------- claims on the 2D kernel
RowSum(M, r) == SumFn([c \in 0..(M.width - 1) |-> Elem(M, r, c)], 0, M.width - 1)

\* The 2D kernel has returned.
Kernel2DReturned == dim = 2 /\ order \in 1..MaxKernelOrder /\ pc = "returned"

\* C3: after the 2D kernel, for any metric buffer, every row of the assembled
\* matrix sums to zero.
C3_RowSumsZero ==
    Kernel2DReturned => \A r \in 0..(ndofs - 1) : RowSum(A_mat[1], r) = 0

\* C3 witness: two order-2 elements assembled from a buffer with a negative
\* slot; some row has a nonzero diagonal and a nonzero off-diagonal entry.
C3_Witness ==
    /\ Kernel2DReturned
    /\ order = 2
    /\ nel_ho = 2
    /\ \E s \in DOMAIN invJ : invJ[s] < 0
    /\ \E r, c \in 0..(ndofs - 1) :
          r # c /\ Elem(A_mat[1], r, r) # 0 /\ Elem(A_mat[1], r, c) # 0

\* Nodes l and m (lexicographic indices) are in each other's stencil.
InStencil(p, l, m) ==
    LET n1 == p + 1
        dx == (l % n1) - (m % n1)
        dy == (l \div n1) - (m \div n1)
    IN  dx \in -1..1 /\ dy \in -1..1

\* C4: for every element and every pair of nodes within each other's stencil,
\* the value handed to Add for (i,j) is the value handed for (j,i).
C4_PairSymmetry ==
    /\ \A key \in DOMAIN added :
          /\ <<key[1], key[3], key[2]>> \in DOMAIN added
          /\ added[<<key[1], key[3], key[2]>>] = added[key]
    /\ \A e \in 0..(iel_ho - 1), l, m \in 0..((order + 1) * (order + 1) - 1) :
          (dim = 2 /\ order \in 1..MaxKernelOrder /\ InStencil(order, l, m)) =>
              <<e, l, m>> \in DOMAIN added

\* C4 witness: both elements done, a pair of distinct nodes with a nonzero
\* value, assembled from a buffer whose components differ.
C4_Witness ==
    /\ iel_ho = 2
    /\ order = 2
    /\ \E s, t \in DOMAIN invJ : s[1] = 1 /\ t[1] = 2 /\ invJ[s] # 0 /\ invJ[s] # invJ[t]
    /\ \E key \in DOMAIN added :
          key[2] # key[3] /\ added[key] # 0 /\ added[<<key[1], key[3], key[2]>>] = added[key]

\* ---- brute-force reference: a loop over the fine cells
\* Value N and derivative dN at reference coordinate t (0 or 1) of the linear
\* shape function of corner c (0 or 1) of the unit interval.
ShapeN(c, t) == IF c = 0 THEN 1 - t ELSE t
ShapeDN(c) == IF c = 0 THEN -1 ELSE 1

\* Entry (ci, cj) of the 4x4 local matrix of sub-cell k of element e: the
\* 4-point quadrature of grad_i . M . grad_j.
BruteLocal(buf, e, k, ci, cj) ==
    SumFn([q \in 0..3 |->
        LET qx == q % 2
            qy == q \div 2
            gi_x == ShapeDN(ci % 2) * ShapeN(ci \div 2, qy)
            gi_y == ShapeN(ci % 2, qx) * ShapeDN(ci \div 2)
            gj_x == ShapeDN(cj % 2) * ShapeN(cj \div 2, qy)
            gj_y == ShapeN(cj % 2, qx) * ShapeDN(cj \div 2)
        IN  gi_x * gj_x * buf[<<0, q, k, e>>]
            + (gi_x * gj_y + gi_y * gj_x) * buf[<<1, q, k, e>>]
            + gi_y * gj_y * buf[<<2, q, k, e>>]], 0, 3)

\* Lexicographic index in the element of corner c of sub-cell k.
CornerLex(p, k, c) == ((k % p) + (c % 2)) + ((k \div p) + (c \div 2)) * (p + 1)

\* The 16 additions of sub-cell k of element e, from t = ci + 4*cj on.
RECURSIVE BruteCell(_, _, _, _, _, _, _)
BruteCell(M, buf, p, dofOf, e, k, t) ==
    Strict(M,
    IF t >= 16 THEN M
    ELSE BruteCell(Add(M, dofOf[CornerLex(p, k, t % 4)], dofOf[CornerLex(p, k, t \div 4)],
                       BruteLocal(buf, e, k, t % 4, t \div 4)),
                   buf, p, dofOf, e, k, t + 1))

\* The loop over the fine cells of element e, from sub-cell k on.
RECURSIVE BruteLoop(_, _, _, _, _, _)
BruteLoop(M, buf, p, dofOf, e, k) ==
    Strict(M,
    IF k >= p * p THEN M
    ELSE BruteLoop(BruteCell(M, buf, p, dofOf, e, k, 0), buf, p, dofOf, e, k + 1))

\* The loop over the elements, from element e on.
RECURSIVE BruteElements(_, _, _, _, _)
BruteElements(M, buf, p, nel, e) ==
    Strict(M,
    IF e >= nel THEN M
    ELSE BruteElements(BruteLoop(M, buf, p, DofOfLex(2, p, nel, e), e, 0), buf, p, nel, e + 1))

BruteForce2D(buf, p, nel) ==
    BruteElements(NewSparseMatrix(GetTrueVSize(2, p, nel), GetTrueVSize(2, p, nel)),
                  buf, p, nel, 0)

\* M and N have the same size and the same value at every position.
SameMatrix(M, N) ==
    /\ M.height = N.height
    /\ M.width = N.width
    /\ \A x \in DOMAIN M.entries \cup DOMAIN N.entries : Elem(M, x[1], x[2]) = Elem(N, x[1], x[2])

\* C5: within the orders of the model, the matrix the 2D kernel leaves equals
\* the brute-force assembly over the fine cells of the same metric buffer.
C5_MatchesBruteForce ==
    Kernel2DReturned => SameMatrix(A_mat[1], BruteForce2D(invJ, order, nel_ho))

\* C5 witness: order 2, two elements on the zigzag mesh, kernel returned with
\* some positive off-diagonal-free matrix of 15 dofs.
C5_Witness ==
    /\ Kernel2DReturned
    /\ order = 2
    /\ nel_ho = 2
    /\ mesh = "zigzag"
    /\ A_mat[1].height = 15
    /\ \E x \in DOMAIN A_mat[1].entries : x[1] # x[2] /\ A_mat[1].entries[x] # 0

\* ---- accumulation
RECURSIVE SumLog(_, _)
SumLog(log, keys) ==
    IF keys = {} THEN 0
    ELSE LET key == CHOOSE x \in keys : TRUE
         IN  log[key] + SumLog(log, keys \ {key})

\* The global (row, column) a recorded addition went to.
LogTarget(key) ==
    LET dofOf == DofOfLex(2, order, nel_ho, key[1])
    IN  <<dofOf[key[2]], dofOf[key[3]]>>

\* The 2D element loop run over the elements in the order es, from an empty
\* matrix.
RECURSIVE AssembleInOrder(_, _)
AssembleInOrder(M, es) ==
    Strict(M,
    IF es = <<>> THEN M
    ELSE AssembleInOrder(
            Assemble2DLoop([mat |-> M, log |-> EmptyEntries], invJ, order, Head(es),
                           DofOfLex(2, order, nel_ho, Head(es)), 0).mat,
            Tail(es)))

\* C7: during and after the 2D element loop every stored entry (r,c) is the
\* sum of all values added so far for node pairs with global dofs (r,c), over
\* all elements; and the assembled matrix is the same when the elements are
\* processed in the reverse order.
C7_ScatterAccumulates ==
    (dim = 2 /\ order \in 1..MaxKernelOrder /\ pc \in {"assemble2d", "returned"}) =>
        LET M == A_mat[1]
            tgt == [key \in DOMAIN added |-> LogTarget(key)]
        IN  /\ \A key \in DOMAIN added : tgt[key] \in DOMAIN M.entries
            /\ \A x \in DOMAIN M.entries :
                  M.entries[x] = SumLog(added, {key \in DOMAIN added : tgt[key] = x})
            /\ (pc = "returned" =>
                  SameMatrix(M, AssembleInOrder(NewSparseMatrix(ndofs, ndofs),
                                                [n \in 1..nel_ho |-> nel_ho - n])))

\* C7 witness: two elements assembled; an entry between two dofs of the common
\* edge received a nonzero value from each element and holds their sum.
C7_Witness ==
    /\ Kernel2DReturned
    /\ nel_ho = 2
    /\ \E k0, k1 \in DOMAIN added :
          /\ k0[1] = 0
          /\ k1[1] = 1
          /\ LogTarget(k0) = LogTarget(k1)
          /\ added[k0] # 0
          /\ added[k1] # 0
          /\ A_mat[1].entries[LogTarget(k0)] = added[k0] + added[k1]

\* ---------------------------------------------- claims on the 3D kernel
\* Lexicographic index in the element of corner c (0..7) of sub-cell k.
CornerLex3D(p, k, c) ==
    LET nd1d == p + 1
    IN  ((c % 2) + (k % p))
        + (((c \div 2) % 2) + ((k \div p) % p)) * nd1d
        + ((c \div 4) + (k \div (p * p))) * nd1d * nd1d

\* The 8 additions of sub-cell k of element e for the trial corner jj_loc, from
\* the test corner ii_loc on.
RECURSIVE ScatterCol3D(_, _, _, _, _, _, _, _)
ScatterCol3D(M, buf, p, dofOf, e, k, jj_loc, ii_loc) ==
    Strict(M,
    IF ii_loc >= 8 THEN M
    ELSE ScatterCol3D(Add(M, dofOf[CornerLex3D(p, k, ii_loc)], dofOf[CornerLex3D(p, k, jj_loc)],
                          QuadSum3D(buf, e, k, ii_loc + 8 * jj_loc)),
                      buf, p, dofOf, e, k, jj_loc, ii_loc + 1))

\* The 64 additions of sub-cell k of element e, from the trial corner jj_loc on.
RECURSIVE ScatterSub3D(_, _, _, _, _, _, _)
ScatterSub3D(M, buf, p, dofOf, e, k, jj_loc) ==
    Strict(M,
    IF jj_loc >= 8 THEN M
    ELSE ScatterSub3D(ScatterCol3D(M, buf, p, dofOf, e, k, jj_loc, 0),
                      buf, p, dofOf, e, k, jj_loc + 1))

\* The loop over the sub-cells, from sub-cell n = e * p^3 + k on.
RECURSIVE ScatterLoop3D(_, _, _, _, _, _)
ScatterLoop3D(M, buf, p, nel, dofTab, n) ==
    Strict(M,
    IF n >= p * p * p * nel THEN M
    ELSE ScatterLoop3D(ScatterSub3D(M, buf, p, dofTab[n \div (p * p * p)], n \div (p * p * p),
                                    n % (p * p * p), 0),
                       buf, p, nel, dofTab, n + 1))

\* The sum of all sub-cell local matrices, each added at the global dofs of
\* its 8 corner nodes.
SumOfLocalMatrices3D ==
    ScatterLoop3D(NewSparseMatrix(ndofs, ndofs), invJ, order, nel_ho,
                  [e \in 0..(nel_ho - 1) |-> DofOfLex(3, order, nel_ho, e)], 0)

\* C6 as stated: after the 3D kernel the global matrix holds the sum of all
\* sub-cell local matrices.
C6_Scatter3D ==
    (dim = 3 /\ order \in 1..MaxKernelOrder /\ pc = "returned") =>
        SameMatrix(A_mat[1], SumOfLocalMatrices3D)

\* ------------------------------------------------ C11: the overlap range
\* The sub-cells the loops over (ky, kx) visit for the node pair (ix,iy),
\* (jx,jy).
Iterated(p, ix, iy, jx, jy) ==
    {<<kx, ky>> : kx \in OverlapBegin(ix, jx)..(OverlapEnd(ix, jx, p) - 1),
                  ky \in OverlapBegin(iy, jy)..(OverlapEnd(iy, jy, p) - 1)}

\* Node coordinate i is an end of sub-cell coordinate k: i = k or i = k + 1.
IsCorner(k, i) == i = k \/ i = k + 1

\* The sub-cells of [0,p-1]^2 that have both nodes as corners.
SharedSubCells(p, ix, iy, jx, jy) ==
    {c \in (0..(p - 1)) \X (0..(p - 1)) :
        /\ IsCorner(c[1], ix) /\ IsCorner(c[1], jx)
        /\ IsCorner(c[2], iy) /\ IsCorner(c[2], jy)}

\* The 2D local assembler has run for at least one element.
Kernel2DActed ==
    dim = 2 /\ HasKernel(dim, order) /\ iel_ho >= 1 /\ pc \in {"assemble2d", "returned"}

\* C11: in the 2D local assembler, for every node pair (i,j) of [0,p]^2 with
\* |jx-ix| <= 1 and |jy-iy| <= 1, the sub-cells iterated are exactly the
\* sub-cells of [0,p-1]^2 having both nodes as corners; there is at least one;
\* every index k read from the metric buffer is in [0,p^2) and every
\* gradient-table offset, of i and of j, along x and along y, is in [0,3].
C11_OverlapRange ==
    Kernel2DActed =>
        \A ix, iy, jx, jy \in 0..order :
            (jx - ix \in -1..1 /\ jy - iy \in -1..1) =>
                LET it == Iterated(order, ix, iy, jx, jy)
                IN  /\ it = SharedSubCells(order, ix, iy, jx, jy)
                    /\ it # {}
                    /\ \A c \in it :
                          /\ SubCellIndex(c[1], c[2], order) \in 0..(order * order - 1)
                          /\ \A iq \in 0..1 :
                                /\ Offset(c[1], ix, iq) \in 0..3
                                /\ Offset(c[1], jx, iq) \in 0..3
                                /\ Offset(c[2], iy, iq) \in 0..3
                                /\ Offset(c[2], jy, iq) \in 0..3

\* An order-3 element has been assembled: the pair of the interior node (1,1)
\* with itself, whose value was handed to Add, iterates four sub-cells and the
\* pair of (1,1) with its diagonal neighbour (2,2) iterates one.
C11_Witness ==
    /\ Kernel2DActed
    /\ order = 3
    /\ <<0, 5, 5>> \in DOMAIN added
    /\ <<0, 5, 10>> \in DOMAIN added
    /\ Cardinality(Iterated(order, 1, 1, 1, 1)) = 4
    /\ Iterated(order, 1, 1, 2, 2) = {<<1, 1>>}

\* ------------------------------------------------ C12: the metric buffer
\* Number of components per quadrature point: (dim*(dim+1))/2.
NumComponents(d) == (d * (d + 1)) \div 2

\* Every slot of the buffer Reshape(..., (dim*(dim+1))/2, nq, pow(order,dim),
\* nel_ho).
AllSlots(d, p, nel) ==
    {<<c, iq, k, e>> : c \in 0..(NumComponents(d) - 1), iq \in 0..(IrSize(d) - 1),
                       k \in 0..(Pow(p, d) - 1), e \in 0..(nel - 1)}

\* The slots the 2D local assembler reads for element e.
ReadSlots2D(p, e) ==
    UNION {{<<c, iq, SubCellIndex(k[1], k[2], p), e>> :
                c \in 0..2, iq \in 0..3, k \in Iterated(p, n[1], n[2], n[3], n[4])} :
           n \in {m \in (0..p) \X (0..p) \X (0..p) \X (0..p) :
                     m[3] - m[1] \in -1..1 /\ m[4] - m[2] \in -1..1}}

\* The slots the 3D local assembler reads for sub-cell k of element e.
ReadSlots3D(e, k) == {<<c, iq, k, e>> : c \in 0..5, iq \in 0..7}

\* C12: the geometric-factor loop writes every slot (component, quadrature
\* point, sub-cell, element) of the metric buffer exactly once: after iel_lor
\* passes, each of which writes one value per component and quadrature point,
\* that many distinct slots are written, and when the loop has ended the
\* written slots are all the slots of the buffer.  The loop ends before the
\* local assembler starts, and the slots the local assembler reads are written.
C12_BufferWrittenOnce ==
    HasKernel(dim, order) =>
        /\ pc \in {"verify", "alloc", "dispatch"} => DOMAIN invJ = {}
        /\ pc \in {"geom2d", "geom3d"} =>
              /\ iel_lor < nel_lor
              /\ DOMAIN invJ \subseteq AllSlots(dim, order, nel_ho)
              /\ Cardinality(DOMAIN invJ)
                    = iel_lor * NumComponents(dim) * IrSize(dim)
        /\ pc \in {"assemble2d", "assemble3d", "returned"} =>
              /\ iel_lor = nel_lor
              /\ DOMAIN invJ = AllSlots(dim, order, nel_ho)
              /\ Cardinality(DOMAIN invJ)
                    = iel_lor * NumComponents(dim) * IrSize(dim)
        /\ pc = "assemble2d" => ReadSlots2D(order, iel_ho) \subseteq DOMAIN invJ
        /\ pc = "assemble3d" => ReadSlots3D(iel_ho, ksub) \subseteq DOMAIN invJ

\* The 3D geometric loop has ended on two order-2 elements (16 fine cells, 768
\* slots) and the local assembler is at the last sub-cell of the last element.
C12_Witness ==
    /\ dim = 3 /\ order = 2 /\ nel_ho = 2
    /\ pc = "assemble3d" /\ iel_ho = 1 /\ ksub = 7
    /\ iel_lor = 16
    /\ Cardinality(DOMAIN invJ) = 768
    /\ <<5, 7, 7, 1>> \in DOMAIN invJ

\* ------------------------------------------------ C13: the 3D metric
\* Entry (i,j), 1-based, of a 3x3 matrix kept row by row in a 9-tuple.
Entry(Mq, i, j) == Mq[3 * (i - 1) + j]

\* Determinant of the 2x2 matrix left when row i and column j are deleted.
Minor(Mq, i, j) ==
    LET r == IF i = 1 THEN <<2, 3>> ELSE IF i = 2 THEN <<1, 3>> ELSE <<1, 2>>
        c == IF j = 1 THEN <<2, 3>> ELSE IF j = 2 THEN <<1, 3>> ELSE <<1, 2>>
    IN  Entry(Mq, r[1], c[1]) * Entry(Mq, r[2], c[2])
        - Entry(Mq, r[1], c[2]) * Entry(Mq, r[2], c[1])

Cofactor(Mq, i, j) == (IF (i + j) % 2 = 0 THEN 1 ELSE -1) * Minor(Mq, i, j)

\* adj(J): the transpose of the cofactor matrix, as a 9-tuple.
Adjugate(Mq) == [n \in 1..9 |-> Cofactor(Mq, ((n - 1) % 3) + 1, ((n - 1) \div 3) + 1)]

\* The cofactor expansion of the determinant along the first column.
CofactorDet(Mq) ==
    Entry(Mq, 1, 1) * Cofactor(Mq, 1, 1) + Entry(Mq, 2, 1) * Cofactor(Mq, 2, 1)
    + Entry(Mq, 3, 1) * Cofactor(Mq, 3, 1)

\* Entry (i,j) of transpose(M) * M and of M * transpose(M).
TransposeTimes(Mq, i, j) ==
    Entry(Mq, 1, i) * Entry(Mq, 1, j) + Entry(Mq, 2, i) * Entry(Mq, 2, j)
    + Entry(Mq, 3, i) * Entry(Mq, 3, j)
TimesTranspose(Mq, i, j) ==
    Entry(Mq, i, 1) * Entry(Mq, j, 1) + Entry(Mq, i, 2) * Entry(Mq, j, 2)
    + Entry(Mq, i, 3) * Entry(Mq, j, 3)

\* The (row, column) of component c in the order xx, xy, xz, yy, yz, zz.
SymIndex(c) == <<<<1, 1>>, <<1, 2>>, <<1, 3>>, <<2, 2>>, <<2, 3>>, <<3, 3>>>>[c + 1]

\* The Jacobian of the fine cell behind slot s = <<c, iq, k, e>>.
SlotJac(s) == Jac3D(mesh, s[4], s[3], order, s[2])

\* (weight/detJ) * transpose(A) * A and (weight/detJ) * A * transpose(A) at
\* the component of slot s, A = adj(J).
MetricAtA(s) ==
    LET Jq == SlotJac(s)
        ij == SymIndex(s[1])
    IN  RealDiv(IrWeight(3), CofactorDet(Jq)) * TransposeTimes(Adjugate(Jq), ij[1], ij[2])
MetricAAt(s) ==
    LET Jq == SlotJac(s)
        ij == SymIndex(s[1])
    IN  RealDiv(IrWeight(3), CofactorDet(Jq)) * TimesTranspose(Adjugate(Jq), ij[1], ij[2])

\* The 3D geometric-factor loop has written at least one fine cell and the 3D
\* kernel has not returned yet (the buffer lives until it returns).
Geom3DActed ==
    dim = 3 /\ HasKernel(dim, order) /\ iel_lor >= 1 /\ pc \in {"geom3d", "assemble3d"}

\* The slots to look at in a state: while the loop runs, those of the fine
\* cell of the pass just made (no slot is written twice); when the loop has
\* just ended, the whole buffer.
JustWritten ==
    IF pc = "geom3d"
    THEN {<<c, iq, EmbeddingMatrix(iel_lor - 1, order, 3),
            EmbeddingParent(iel_lor - 1, order, 3)>> : c \in 0..5, iq \in 0..7}
    ELSE IF iel_ho = 0 /\ ksub = 0 THEN DOMAIN invJ ELSE {}

\* C13 as stated: every value the 3D geometric-factor loop stores is, in the
\* order (xx,xy,xz,yy,yz,zz), the entry of (weight/detJ) * transpose(A) * A,
\* A = adj(J), detJ the cofactor expansion.
C13_Original ==
    Geom3DActed => \A s \in JustWritten : invJ[s] = MetricAtA(s)

\* C13: every value the 3D geometric-factor loop stores is, in the order
\* (xx,xy,xz,yy,yz,zz), the entry of the symmetric matrix
\* (weight/detJ) * A * transpose(A), where A = adj(J) is the adjugate of the
\* cell's Jacobian at the quadrature point and detJ its cofactor expansion.
C13_MetricIsAAt ==
    Geom3DActed => \A s \in JustWritten : invJ[s] = MetricAAt(s)

\* The 3D loop has filled the buffer of a sheared order-2 element, whose
\* Jacobian has A * transpose(A) different from transpose(A) * A: the xx and
\* the zz values stored are those of A * transpose(A).
C13_Witness ==
    /\ Geom3DActed
    /\ mesh = "shear" /\ order = 2
    /\ pc = "assemble3d" /\ iel_ho = 0 /\ ksub = 0
    /\ JustWritten = AllSlots(3, order, nel_ho)
    /\ invJ[<<0, 0, 0, 0>>] = MetricAAt(<<0, 0, 0, 0>>)
    /\ MetricAAt(<<0, 0, 0, 0>>) # MetricAtA(<<0, 0, 0, 0>>)
    /\ invJ[<<5, 7, 7, 0>>] # MetricAtA(<<5, 7, 7, 0>>)

====
